---- MODULE Spec2Model ----
(***************************************************************************)
(* Model of the negative-restore backend.                                  *)
(*                                                                         *)
(*   - app/services/image_processing.py : the five-stage pixel pipeline    *)
(*     (process_image and the stage functions it calls);                   *)
(*   - app/routes.py : the /upload/ and /process/ handlers and the         *)
(*     content-derived file names;                                         *)
(*   - app/utils/cleanup.py : the retention sweep delete_old_files.        *)
(*                                                                         *)
(* A pixel buffer is a sequence of pixels, a pixel a triple of samples     *)
(* <<c0, c1, c2>> (array index 0, 1, 2 of the numpy array).  Real-valued   *)
(* intermediate results (percentiles, gain products) are kept exactly, as  *)
(* integers scaled by 100; the conversions to uint8 / int16 truncate as    *)
(* numpy's astype and item assignment do.                                  *)
(***************************************************************************)
EXTENDS Integers, Sequences, FiniteSets, TLC

\* ------------------------------------------------------------------ bounds

\* Number of pixels of the images process_image is run on.
NPix == 2
\* Number of pixels of the images clip_histogram is compared on.
ClipPix == 3
\* Number of events (clock advances, accepted /upload/ requests and /process/
\* requests) in a run of the handlers and the sweep.
MaxEvents == 4
\* routes.py: hashlib.sha256(data).hexdigest()[:8].  The digest is scaled down
\* to DigestLen hexadecimal digits, of which the name keeps the first H8Len:
\* as in the code, the name keeps only a prefix of the digest.
DigestLen == 2
H8Len == 1

\* --------------------------------------------------------------- constants

\* process_image: cv2.normalize(clipped, None, 0, 245, cv2.NORM_MINMAX)
NORM_ALPHA == 0
NORM_BETA == 245
\* process_image: balance_colors(normalized, red_factor=0.9, green_factor=0.85,
\* blue_factor=1.0); the factors in hundredths.
RED_FACTOR == 90
GREEN_FACTOR == 85
BLUE_FACTOR == 100
\* process_image: desaturate_red_and_yellow_lab(balanced, red_intensity=0.6,
\* yellow_intensity=0.9, yellow_threshold=100); the intensities in hundredths.
RED_INTENSITY == 60
YELLOW_INTENSITY == 90
YELLOW_THRESHOLD == 100
\* desaturate_red_and_yellow_lab: red_mask = a > 128
RED_MIDPOINT == 128
\* clip_histogram: the default percentiles r_clip_low=5, r_clip_high=99, ...
CLIP_LOW == 5
CLIP_HIGH == 99
\* cleanup.py
MAX_FILE_AGE_SECONDS == 7200
\* routes.py
MAX_FILE_SIZE_MB == 4

\* ----------------------------------------------------------- input domains

\* The decoded pixels the images are drawn from (R, G, B): black, white,
\* mid-grey and two colours.
PixelSamples ==
    { <<0, 0, 0>>, <<255, 255, 255>>, <<128, 128, 128>>,
      <<255, 200, 30>>, <<255, 0, 100>> }

Images == [1..NPix -> PixelSamples]

ClipImages == [1..ClipPix -> PixelSamples]

\* 8-bit Lab triples (L, a, b) the colour conversion may deliver: chroma at
\* and one above the red midpoint and the yellow threshold, and the extremes.
LabSamples ==
    { <<50, 128, 100>>, <<50, 129, 101>>, <<200, 255, 255>>, <<0, 0, 0>>,
      <<120, 140, 90>> }

\* Percentile windows clip_histogram is called with in the window comparison.
LowPercentiles == {CLIP_LOW, 50}
HighPercentiles == {CLIP_HIGH, 100}

\* ----------------------------------------------------------------- helpers

Range(s) == {s[i] : i \in DOMAIN s}

Min2(x, y) == IF x <= y THEN x ELSE y

Max2(x, y) == IF x >= y THEN x ELSE y

\* cv2.split: the three channels of a buffer, by array index.
cv2_split(image) == [k \in 1..3 |-> [p \in DOMAIN image |-> image[p][k]]]

\* cv2.merge: the buffer whose channels are chs[1], chs[2], chs[3].
cv2_merge(chs) == [p \in DOMAIN chs[1] |-> <<chs[1][p], chs[2][p], chs[3][p]>>]

\* np.clip(x, lo, hi) == minimum(maximum(x, lo), hi)
np_clip(x, lo, hi) == Min2(Max2(x, lo), hi)

\* astype(np.uint8) / assignment into an int16 array of a non-negative real
\* held in hundredths: truncation.
trunc100(x100) == x100 \div 100

\* cvRound: round to nearest, ties to even, of num/den (num >= 0, den > 0).
cvRound(num, den) ==
    LET q == num \div den
        r == num % den
    IN  IF 2 * r < den THEN q
        ELSE IF 2 * r > den THEN q + 1
        ELSE IF q % 2 = 0 THEN q ELSE q + 1

\* cv::saturate_cast<uchar>
saturate_uchar(x) == np_clip(x, 0, 255)

\* ---------------------------------------------------------- stage functions

\* Image.eval(img, lambda x: 255 - x)
InvertSampleOffByOne(x) == 256 - x

InvertSample(x) == 255 - x

Invert(image) == [p \in DOMAIN image |-> [k \in 1..3 |-> InvertSample(image[p][k])]]

\* cv2.equalizeHist on one channel: the lookup table is the scaled cumulative
\* histogram counted from the first occupied bin; a channel with a single
\* occupied bin is returned as it is.
equalizeHist(ch) ==
    LET total == Len(ch)
        i == CHOOSE v \in Range(ch) : \A w \in Range(ch) : v <= w
        hist_i == Cardinality({p \in DOMAIN ch : ch[p] = i})
        sum(v) == Cardinality({p \in DOMAIN ch : ch[p] <= v}) - hist_i
    IN  IF hist_i = total
        THEN [p \in DOMAIN ch |-> i]
        ELSE [p \in DOMAIN ch |->
                 saturate_uchar(cvRound(255 * sum(ch[p]), total - hist_i))]

\* The k-th smallest sample (k = 1 the smallest) of a channel.
KthSmallest(ch, k) ==
    CHOOSE v \in Range(ch) :
        /\ Cardinality({p \in DOMAIN ch : ch[p] < v}) < k
        /\ k <= Cardinality({p \in DOMAIN ch : ch[p] <= v})

\* np.percentile(ch, q), linear interpolation, in hundredths: the virtual
\* index is q/100 * (n - 1), the result a + (b - a) * fraction.
np_percentile(ch, q) ==
    LET n == Len(ch)
        vi == q * (n - 1)
        k == vi \div 100
        g == vi % 100
        a == KthSmallest(ch, k + 1)
        b == KthSmallest(ch, Min2(k + 2, n))
    IN  100 * a + g * (b - a)

\* np.clip(ch, c_min, c_max).astype(np.uint8) with the percentile bounds of ch.
ClipChannelSwappedBounds(ch, lo, hi) ==
    LET c_max == np_percentile(ch, lo)
        c_min == np_percentile(ch, hi)
    IN  [p \in DOMAIN ch |-> trunc100(np_clip(100 * ch[p], c_min, c_max))]

ClipChannelOneSided(ch, lo, hi) ==
    LET c_max == np_percentile(ch, hi)
    IN  [p \in DOMAIN ch |-> trunc100(Min2(100 * ch[p], c_max))]

ClipChannel(ch, lo, hi) ==
    LET c_min == np_percentile(ch, lo)
        c_max == np_percentile(ch, hi)
    IN  [p \in DOMAIN ch |-> trunc100(np_clip(100 * ch[p], c_min, c_max))]

\* clip_histogram(image, r_clip_low, r_clip_high, g_clip_low, g_clip_high,
\*                b_clip_low, b_clip_high)
clip_histogram(image, r_lo, r_hi, g_lo, g_hi, b_lo, b_hi) ==
    LET chs == cv2_split(image)
        b == equalizeHist(chs[1])
        g == equalizeHist(chs[2])
        r == equalizeHist(chs[3])
    IN  cv2_merge(<<ClipChannel(b, b_lo, b_hi),
                    ClipChannel(g, g_lo, g_hi),
                    ClipChannel(r, r_lo, r_hi)>>)

\* The samples of a buffer, over all pixels and channels.
Samples(image) == {image[p][k] : p \in DOMAIN image, k \in 1..3}

\* cv2.normalize(src, None, alpha, beta, cv2.NORM_MINMAX): the global minimum
\* maps to the lower, the global maximum to the upper of alpha and beta; a
\* flat buffer has scale 0 and maps to the lower bound.
cv2_normalize_flat_kept(src, alpha, beta) ==
    LET smin == CHOOSE v \in Samples(src) : \A w \in Samples(src) : v <= w
        smax == CHOOSE v \in Samples(src) : \A w \in Samples(src) : v >= w
        dmin == Min2(alpha, beta)
        dmax == Max2(alpha, beta)
    IN  [p \in DOMAIN src |-> [k \in 1..3 |->
            IF smax - smin > 0
            THEN saturate_uchar(
                     dmin + cvRound((src[p][k] - smin) * (dmax - dmin), smax - smin))
            ELSE saturate_uchar(src[p][k])]]

cv2_normalize(src, alpha, beta) ==
    LET smin == CHOOSE v \in Samples(src) : \A w \in Samples(src) : v <= w
        smax == CHOOSE v \in Samples(src) : \A w \in Samples(src) : v >= w
        dmin == Min2(alpha, beta)
        dmax == Max2(alpha, beta)
    IN  [p \in DOMAIN src |-> [k \in 1..3 |->
            IF smax - smin > 0
            THEN saturate_uchar(
                     dmin + cvRound((src[p][k] - smin) * (dmax - dmin), smax - smin))
            ELSE saturate_uchar(dmin)]]

\* np.clip(ch * factor, 0, 255).astype(np.uint8), factor in hundredths.
GainChannel(ch, factor) ==
    [p \in DOMAIN ch |-> trunc100(np_clip(ch[p] * factor, 0, 255 * 100))]

\* balance_colors(image, red_factor, green_factor, blue_factor):
\*   b, g, r = cv2.split(image); ...; return cv2.merge([b, g, r])
balance_colors(image, red_factor, green_factor, blue_factor) ==
    LET chs == cv2_split(image)
        b == chs[1]
        g == chs[2]
        r == chs[3]
    IN  cv2_merge(<<GainChannel(b, blue_factor),
                    GainChannel(g, green_factor),
                    GainChannel(r, red_factor)>>)

\* desaturate_red_and_yellow_lab, one chroma sample:
\*   c = c.astype(np.int16); c[c > threshold] = threshold + (c - threshold) * intensity
\*   c = np.clip(c, 0, 255).astype(np.uint8)
AdjustChromaRounded(c, threshold, intensity) ==
    IF c > threshold
    THEN np_clip(threshold + cvRound((c - threshold) * intensity, 100), 0, 255)
    ELSE np_clip(c, 0, 255)

AdjustChroma(c, threshold, intensity) ==
    IF c > threshold
    THEN np_clip(threshold + trunc100((c - threshold) * intensity), 0, 255)
    ELSE np_clip(c, 0, 255)

\* The Lab buffer with its a and b channels adjusted; L is left alone.
AdjustLab(labimg, red_intensity, yellow_intensity, yellow_threshold) ==
    [p \in DOMAIN labimg |->
        << labimg[p][1],
           AdjustChroma(labimg[p][2], RED_MIDPOINT, red_intensity),
           AdjustChroma(labimg[p][3], yellow_threshold, yellow_intensity) >>]

\* ------------------------------------------------------------------- state

VARIABLES
    \* process_image
    pc,            \* position in process_image
    img,           \* the decoded RGB image (Image.open(...).convert('RGB'))
    na,            \* the inverted buffer
    clipped,       \* clip_histogram's result
    normalized,    \* cv2.normalize's result
    balanced,      \* balance_colors' result
    image,         \* desaturate_red_and_yellow_lab: its parameter
    lab,           \* desaturate_red_and_yellow_lab: cv2.cvtColor(image, BGR2LAB)
    lab_modified,  \* desaturate_red_and_yellow_lab: cv2.merge([l, a, b])
    ajustada,      \* desaturate_red_and_yellow_lab's result
    written,       \* the buffers saved to output_path, in order
    stages,        \* the stage functions called so far, in order
    \* clip_histogram called with two percentile windows
    cimage,        \* the buffer given to clip_histogram
    cwin,          \* the two windows: narrow [lo1, hi1] inside wide [lo2, hi2]
    cnarrow,       \* the result under the narrow window
    cwide,         \* the result under the wide window
    \* the file stores, the handlers and the sweep
    now,           \* time.time(), in seconds
    nev,           \* events so far
    uploads,       \* uploads/    : stored name -> [data, mtime]
    processed,     \* processed/  : name -> [from, mtime]
    pending,       \* background tasks added and not yet started
    swpc,          \* delete_old_files: idle, or the folder it is about to scan
    swnow,         \* delete_old_files: its local now
    swerr,         \* delete_old_files: whether an os.remove of this run failed
    accepted,      \* the accepted uploads [data, stored], each with the time
                   \* of its last successful /upload/ answer
    response       \* the last answer (status 200) of /upload/ or /process/

pipeVars == <<pc, img, na, clipped, normalized, balanced, image, lab,
              lab_modified, ajustada, written, stages>>

clipVars == <<cimage, cwin, cnarrow, cwide>>

storeVars == <<now, nev, uploads, processed, pending, swpc, swnow, swerr,
               accepted, response>>

vars == <<pipeVars, clipVars, storeVars>>

\* No buffer: a variable not yet assigned, or a local out of scope.
None == <<>>

\* No request answered yet.
NoResponse == [handler |-> "", filename |-> "", error |-> "", at |-> 0]

PipeIdle ==
    /\ pc = "start" /\ img = None /\ na = None /\ clipped = None
    /\ normalized = None /\ balanced = None /\ image = None /\ lab = None
    /\ lab_modified = None /\ ajustada = None /\ written = <<>> /\ stages = <<>>

ClipIdle ==
    /\ cimage = None /\ cwin = None /\ cnarrow = None /\ cwide = None

StoreIdle ==
    /\ now = 0 /\ nev = 0
    /\ uploads = <<>> /\ processed = <<>>
    /\ pending = 0 /\ swpc = "idle" /\ swnow = 0 /\ swerr = FALSE
    /\ accepted = <<>> /\ response = NoResponse

\* ------------------------------------------------------------ process_image

\* The order process_image calls the stages in.
StageOrder ==
    << "invert", "clip_histogram", "normalize", "balance_colors",
       "desaturate_red_and_yellow_lab" >>

\* img = Image.open(image_path).convert('RGB')
\* inverted_img = Image.eval(img, lambda x: 255 - x); na = np.array(inverted_img)
LoadInvert ==
    /\ pc = "start"
    /\ UNCHANGED <<clipVars, storeVars>>
    /\ na' = Invert(img)
    /\ stages' = Append(stages, "invert")
    /\ pc' = "inverted"
    /\ UNCHANGED <<img, clipped, normalized, balanced, image, lab, lab_modified,
                   ajustada, written>>

\* clipped = clip_histogram(na)
ClipStep ==
    /\ pc = "inverted"
    /\ UNCHANGED <<clipVars, storeVars>>
    /\ clipped' = clip_histogram(na, CLIP_LOW, CLIP_HIGH, CLIP_LOW, CLIP_HIGH,
                                 CLIP_LOW, CLIP_HIGH)
    /\ stages' = Append(stages, "clip_histogram")
    /\ pc' = "clipped"
    /\ UNCHANGED <<img, na, normalized, balanced, image, lab, lab_modified,
                   ajustada, written>>

\* normalized = cv2.normalize(clipped, None, 0, 245, cv2.NORM_MINMAX)
NormalizeStep ==
    /\ pc = "clipped"
    /\ UNCHANGED <<clipVars, storeVars>>
    /\ normalized' = cv2_normalize(clipped, NORM_ALPHA, NORM_BETA)
    /\ stages' = Append(stages, "normalize")
    /\ pc' = "normalized"
    /\ UNCHANGED <<img, na, clipped, balanced, image, lab, lab_modified,
                   ajustada, written>>

\* balanced = balance_colors(normalized, red_factor=0.9, green_factor=0.85,
\*                           blue_factor=1.0)
BalanceStepOnClipped ==
    /\ pc = "normalized"
    /\ UNCHANGED <<clipVars, storeVars>>
    /\ balanced' = balance_colors(clipped, RED_FACTOR, GREEN_FACTOR, BLUE_FACTOR)
    /\ stages' = Append(stages, "balance_colors")
    /\ pc' = "balanced"
    /\ UNCHANGED <<img, na, clipped, normalized, image, lab, lab_modified,
                   ajustada, written>>

BalanceStep ==
    /\ pc = "normalized"
    /\ UNCHANGED <<clipVars, storeVars>>
    /\ balanced' = balance_colors(normalized, RED_FACTOR, GREEN_FACTOR, BLUE_FACTOR)
    /\ stages' = Append(stages, "balance_colors")
    /\ pc' = "balanced"
    /\ UNCHANGED <<img, na, clipped, normalized, image, lab, lab_modified,
                   ajustada, written>>

\* ajustada = desaturate_red_and_yellow_lab(balanced, ...), entered:
\*   lab = cv2.cvtColor(image, cv2.COLOR_BGR2LAB); l, a, b = cv2.split(lab)
\* The colour conversion is OpenCV's; its result is some 8-bit Lab buffer of
\* the same dimensions.
DesaturateEnter ==
    /\ pc = "balanced"
    /\ UNCHANGED <<clipVars, storeVars>>
    /\ image' = balanced
    /\ lab' \in [DOMAIN balanced -> LabSamples]
    /\ stages' = Append(stages, "desaturate_red_and_yellow_lab")
    /\ pc' = "lab"
    /\ UNCHANGED <<img, na, clipped, normalized, balanced, lab_modified,
                   ajustada, written>>

\* The a and b channels are adjusted and clipped; lab_modified = cv2.merge([l, a, b])
DesaturateAdjust ==
    /\ pc = "lab"
    /\ UNCHANGED <<clipVars, storeVars>>
    /\ lab_modified' = AdjustLab(lab, RED_INTENSITY, YELLOW_INTENSITY, YELLOW_THRESHOLD)
    /\ pc' = "lab_modified"
    /\ UNCHANGED <<img, na, clipped, normalized, balanced, image, lab,
                   ajustada, written, stages>>

\* result = cv2.cvtColor(lab_modified, cv2.COLOR_LAB2BGR); return result
\* The conversion back is OpenCV's; its result is some 8-bit buffer of the same
\* dimensions.  The function's locals go out of scope.
DesaturateReturn ==
    /\ pc = "lab_modified"
    /\ UNCHANGED <<clipVars, storeVars>>
    /\ ajustada' \in [DOMAIN lab_modified -> PixelSamples]
    /\ image' = None /\ lab' = None /\ lab_modified' = None
    /\ pc' = "adjusted"
    /\ UNCHANGED <<img, na, clipped, normalized, balanced, written, stages>>

\* processed_img = Image.fromarray(ajustada.astype(np.uint8)); processed_img.save(output_path)
Save ==
    /\ pc = "adjusted"
    /\ UNCHANGED <<clipVars, storeVars>>
    /\ written' = Append(written, ajustada)
    /\ pc' = "saved"
    /\ UNCHANGED <<img, na, clipped, normalized, balanced, image, lab,
                   lab_modified, ajustada, stages>>

PipeInit ==
    /\ pc = "start" /\ img \in Images /\ na = None /\ clipped = None
    /\ normalized = None /\ balanced = None /\ image = None /\ lab = None
    /\ lab_modified = None /\ ajustada = None /\ written = <<>> /\ stages = <<>>
    /\ ClipIdle /\ StoreIdle

PipeNext ==
    \/ LoadInvert
    \/ ClipStep
    \/ NormalizeStep
    \/ BalanceStep
    \/ DesaturateEnter
    \/ DesaturateAdjust
    \/ DesaturateReturn
    \/ Save

\* process_image run on every image of Images.
SpecPipeline == PipeInit /\ [][PipeNext]_vars

\* ------------------------------------------- clip_histogram, two windows

ClipNarrow ==
    /\ cnarrow = None
    /\ UNCHANGED <<pipeVars, storeVars>>
    /\ cnarrow' = clip_histogram(cimage, cwin.lo1, cwin.hi1, cwin.lo1, cwin.hi1,
                                 cwin.lo1, cwin.hi1)
    /\ UNCHANGED <<cimage, cwin, cwide>>

ClipWide ==
    /\ cwide = None
    /\ UNCHANGED <<pipeVars, storeVars>>
    /\ cwide' = clip_histogram(cimage, cwin.lo2, cwin.hi2, cwin.lo2, cwin.hi2,
                               cwin.lo2, cwin.hi2)
    /\ UNCHANGED <<cimage, cwin, cnarrow>>

ClipInit ==
    /\ cimage \in ClipImages
    /\ cwin \in { w \in [lo1 : LowPercentiles, hi1 : HighPercentiles,
                        lo2 : LowPercentiles, hi2 : HighPercentiles] :
                    w.lo2 <= w.lo1 /\ w.hi1 <= w.hi2 }
    /\ cnarrow = None /\ cwide = None
    /\ PipeIdle /\ StoreIdle

ClipNext ==
    \/ ClipNarrow
    \/ ClipWide

\* clip_histogram applied to every image of ClipImages under every pair of a
\* narrow and a wider percentile window.
SpecClip == ClipInit /\ [][ClipNext]_vars

\* ------------------------------------------------ the stores and handlers

\* The multipart files /upload/ may receive.  filename is the client's name
\* for the file, by its parts; contents stands for the bytes: id for the byte
\* string, mb for its size in megabytes, is_image for whether PIL's verify()
\* accepts it.  Byte strings 0 and 16 differ and share the digest prefix.
UploadFiles ==
    { [filename |-> [stem |-> "a", suffix |-> ".jpg"], content_type |-> "image/jpeg",
       contents |-> [id |-> 0, mb |-> 1, is_image |-> TRUE]],
      [filename |-> [stem |-> "b", suffix |-> ".png"], content_type |-> "image/png",
       contents |-> [id |-> 0, mb |-> 1, is_image |-> TRUE]],
      [filename |-> [stem |-> "a", suffix |-> ".jpg"], content_type |-> "image/jpeg",
       contents |-> [id |-> 16, mb |-> 1, is_image |-> TRUE]],
      [filename |-> [stem |-> "a", suffix |-> ".jpg"], content_type |-> "text/plain",
       contents |-> [id |-> 0, mb |-> 1, is_image |-> TRUE]],
      [filename |-> [stem |-> "a", suffix |-> ".jpg"], content_type |-> "image/jpeg",
       contents |-> [id |-> 2, mb |-> 5, is_image |-> TRUE]],
      [filename |-> [stem |-> "a", suffix |-> ".jpg"], content_type |-> "image/jpeg",
       contents |-> [id |-> 3, mb |-> 1, is_image |-> FALSE]] }

\* The clock advances by a second or by the retention age.
TickSteps == {1, MAX_FILE_AGE_SECONDS}

VALID_IMAGE_TYPES == {"image/jpeg", "image/png", "image/jpg", "image/webp"}

\* _EXT_BY_MIME
EXT_BY_MIME(mime) ==
    CASE mime = "image/jpeg" -> ".jpg"
      [] mime = "image/jpg" -> ".jpg"
      [] mime = "image/png" -> ".png"
      [] mime = "image/webp" -> ".webp"
      [] OTHER -> ""

\* b ^ e for naturals.
RECURSIVE Pow(_, _)
Pow(b, e) == IF e = 0 THEN 1 ELSE b * Pow(b, e - 1)

\* hashlib.sha256(data).hexdigest(): the hexadecimal digits of the digest,
\* a function of the bytes.
sha256_hexdigest(data) ==
    [i \in 1..DigestLen |-> (data.id \div Pow(16, i - 1)) % 16]

\* _derive_filenames(original, data, mime): (stored_name, processed_name), the
\* names "{stem}__{h8}{ext}" and "processed_{stem}__{h8}.jpg" as records of
\* their parts.  The handler has checked the MIME type, so ext is never empty.
derive_filenames(original, data, mime) ==
    LET stem == original.stem
        ext == EXT_BY_MIME(mime)
        h8 == SubSeq(sha256_hexdigest(data), 1, H8Len)
    IN  << [stem |-> stem, h8 |-> h8, ext |-> ext],
           [prefix |-> "processed_", stem |-> stem, h8 |-> h8, ext |-> ".jpg"] >>

\* The stored names /upload/ can derive.
StoredNames ==
    { derive_filenames(f.filename, f.contents, f.content_type)[1] :
        f \in {g \in UploadFiles : g.content_type \in VALID_IMAGE_TYPES} }

\* A directory (a map) with the entry name written: created or replaced.
WriteFile(dir, name, file) == [n \in DOMAIN dir \cup {name} |->
                                  IF n = name THEN file ELSE dir[n]]

\* A directory without the files named.
RemoveFiles(dir, names) == [n \in DOMAIN dir \ names |-> dir[n]]

\* delete_old_files: file_age = now - os.path.getmtime(path);
\*                   if file_age > MAX_FILE_AGE_SECONDS
IsOldInclusive(mtime, t) == t - mtime >= MAX_FILE_AGE_SECONDS

IsOld(mtime, t) == t - mtime > MAX_FILE_AGE_SECONDS

\* time.time() advances.
Tick ==
    /\ nev < MaxEvents
    /\ nev' = nev + 1
    /\ \E dt \in TickSteps : now' = now + dt
    /\ UNCHANGED <<uploads, processed, pending, swpc, swnow, swerr, accepted,
                   response>>
    /\ UNCHANGED <<pipeVars, clipVars>>

\* POST /upload/ : a request that ends in an HTTPException (400) changes
\* nothing; an accepted one writes the file unless its name exists, adds the
\* background sweep and answers with the stored name.
upload_image_overwrite(file) ==
    IF \/ file.content_type \notin VALID_IMAGE_TYPES
       \/ file.contents.mb > MAX_FILE_SIZE_MB
       \/ ~file.contents.is_image
    THEN UNCHANGED storeVars
    ELSE LET names == derive_filenames(file.filename, file.contents, file.content_type)
             stored_name == names[1]
         IN  /\ nev < MaxEvents
             /\ nev' = nev + 1
             /\ uploads' = WriteFile(uploads, stored_name,
                                     [data |-> file.contents.id, mtime |-> now])
             /\ pending' = pending + 1
             /\ accepted' = WriteFile(accepted,
                                [data |-> file.contents.id, stored |-> stored_name], now)
             /\ response' = [handler |-> "upload", filename |-> stored_name,
                             error |-> "", at |-> now]
             /\ UNCHANGED <<now, processed, swpc, swnow, swerr>>

upload_image(file) ==
    IF \/ file.content_type \notin VALID_IMAGE_TYPES
       \/ file.contents.mb > MAX_FILE_SIZE_MB
       \/ ~file.contents.is_image
    THEN UNCHANGED storeVars
    ELSE LET names == derive_filenames(file.filename, file.contents, file.content_type)
             stored_name == names[1]
         IN  /\ nev < MaxEvents
             /\ nev' = nev + 1
             /\ uploads' = IF stored_name \notin DOMAIN uploads
                           THEN WriteFile(uploads, stored_name,
                                          [data |-> file.contents.id, mtime |-> now])
                           ELSE uploads
             /\ pending' = pending + 1
             /\ accepted' = WriteFile(accepted,
                                [data |-> file.contents.id, stored |-> stored_name], now)
             /\ response' = [handler |-> "upload", filename |-> stored_name,
                             error |-> "", at |-> now]
             /\ UNCHANGED <<now, processed, swpc, swnow, swerr>>

Upload ==
    /\ \E file \in UploadFiles : upload_image(file)
    /\ UNCHANGED <<pipeVars, clipVars>>

\* POST /process/?filename=... : answers "Archivo no encontrado" when uploads/
\* holds no such file; otherwise process_image writes
\* processed_<stem of filename>.jpg and the background sweep is added.
process_uploaded_image(filename) ==
    /\ nev < MaxEvents
    /\ nev' = nev + 1
    /\ IF filename \notin DOMAIN uploads
       THEN /\ response' = [handler |-> "process", filename |-> filename,
                            error |-> "Archivo no encontrado", at |-> now]
            /\ UNCHANGED <<processed, pending>>
       ELSE LET out_name == [prefix |-> "processed_", stem |-> filename.stem,
                             h8 |-> filename.h8, ext |-> ".jpg"]
            IN  /\ processed' = WriteFile(processed, out_name,
                                    [from |-> uploads[filename].data, mtime |-> now])
                /\ pending' = pending + 1
                /\ response' = [handler |-> "process", filename |-> filename,
                                error |-> "", at |-> now, out |-> out_name]
    /\ UNCHANGED <<now, uploads, swpc, swnow, swerr, accepted>>

Process ==
    /\ \E filename \in StoredNames : process_uploaded_image(filename)
    /\ UNCHANGED <<pipeVars, clipVars>>

\* delete_old_files, started as a background task: now = time.time().
\* The sweeps are run one after another.
SweepStart ==
    /\ pending > 0
    /\ swpc = "idle"
    /\ pending' = pending - 1
    /\ swnow' = now
    /\ swerr' = FALSE
    /\ swpc' = "uploads"
    /\ UNCHANGED <<now, nev, uploads, processed, accepted, response>>
    /\ UNCHANGED <<pipeVars, clipVars>>

\* delete_old_files, one folder: every old file is removed, unless its
\* os.remove raises, which is logged and leaves the file.
SweepFolder(dir, failed) ==
    RemoveFiles(dir, {n \in DOMAIN dir : IsOld(dir[n].mtime, swnow)} \ failed)

\* for folder in FOLDERS_TO_CLEAN: "uploads"
SweepUploads ==
    /\ swpc = "uploads"
    /\ \E failed \in SUBSET {n \in DOMAIN uploads : IsOld(uploads[n].mtime, swnow)} :
           /\ uploads' = SweepFolder(uploads, failed)
           /\ swerr' = (swerr \/ failed # {})
    /\ swpc' = "processed"
    /\ UNCHANGED <<now, nev, processed, pending, swnow, accepted, response>>
    /\ UNCHANGED <<pipeVars, clipVars>>

\* for folder in FOLDERS_TO_CLEAN: "processed"; the sweep returns.
SweepProcessed ==
    /\ swpc = "processed"
    /\ \E failed \in SUBSET {n \in DOMAIN processed : IsOld(processed[n].mtime, swnow)} :
           /\ processed' = SweepFolder(processed, failed)
           /\ swerr' = (swerr \/ failed # {})
    /\ swpc' = "idle"
    /\ swnow' = 0
    /\ UNCHANGED <<now, nev, uploads, pending, accepted, response>>
    /\ UNCHANGED <<pipeVars, clipVars>>

StoreInit == StoreIdle /\ PipeIdle /\ ClipIdle

StoreNext ==
    \/ Tick
    \/ Upload
    \/ Process
    \/ SweepStart
    \/ SweepUploads
    \/ SweepProcessed

\* The handlers, the clock and the background sweeps, interleaved.
Spec == StoreInit /\ [][StoreNext]_vars

\* ======================================================== properties

\* Every sample of a buffer (None has none) is a uint8 value.
InRange(buf) == \A p \in DOMAIN buf : \A k \in 1..3 : buf[p][k] \in 0..255

AllZero(buf) == \A p \in DOMAIN buf : \A k \in 1..3 : buf[p][k] = 0

\* All samples of the buffer are one value.
Flat(buf) == \A v \in Samples(buf) : \A w \in Samples(buf) : v = w

\* All pixels of the buffer are one colour.
ConstantColour(buf) == \A p \in DOMAIN buf : \A q \in DOMAIN buf : buf[p] = buf[q]

\* The positions of process_image from which a stage's result exists.
AfterInvert == {"inverted", "clipped", "normalized", "balanced", "lab",
                "lab_modified", "adjusted", "saved"}
AfterClip == AfterInvert \ {"inverted"}
AfterNormalize == AfterClip \ {"clipped"}
AfterBalance == AfterNormalize \ {"normalized"}
InDesaturate == {"lab", "lab_modified"}
AfterDesaturate == {"adjusted", "saved"}

\* ---------------------------------------------------------------------- C1
\* C1: process_image calls invert, clip_histogram, normalize (0..245),
\* balance_colors and desaturate_red_and_yellow_lab once each and in that
\* order; each stage is given the previous stage's result, a stage that has
\* not run yet has produced nothing, and the only buffer written to the
\* output path is the last stage's result, written once, at the end.
C1_StagesInOrder ==
    /\ stages = SubSeq(StageOrder, 1, Len(stages))
    /\ Len(stages) = (IF pc = "start" THEN 0
                      ELSE IF pc = "inverted" THEN 1
                      ELSE IF pc = "clipped" THEN 2
                      ELSE IF pc = "normalized" THEN 3
                      ELSE IF pc = "balanced" THEN 4
                      ELSE 5)
    /\ na = (IF pc \in AfterInvert THEN Invert(img) ELSE None)
    /\ clipped = (IF pc \in AfterClip
                  THEN clip_histogram(na, CLIP_LOW, CLIP_HIGH, CLIP_LOW, CLIP_HIGH,
                                      CLIP_LOW, CLIP_HIGH)
                  ELSE None)
    /\ normalized = (IF pc \in AfterNormalize
                     THEN cv2_normalize(clipped, NORM_ALPHA, NORM_BETA)
                     ELSE None)
    /\ balanced = (IF pc \in AfterBalance
                   THEN balance_colors(normalized, RED_FACTOR, GREEN_FACTOR, BLUE_FACTOR)
                   ELSE None)
    /\ pc \in InDesaturate => image = balanced
    /\ pc = "lab_modified" =>
           lab_modified = AdjustLab(lab, RED_INTENSITY, YELLOW_INTENSITY,
                                    YELLOW_THRESHOLD)
    /\ pc \notin AfterDesaturate => ajustada = None
    /\ written = (IF pc = "saved" THEN <<ajustada>> ELSE <<>>)

\* C1 witness: a run that has saved its result, on an image that every stage
\* up to the balancer changes.
C1_Witness ==
    /\ pc = "saved"
    /\ stages = StageOrder
    /\ written = <<ajustada>>
    /\ na # img /\ clipped # na /\ normalized # clipped /\ balanced # normalized

\* ---------------------------------------------------------------------- C2
\* C2: every buffer a stage produces (inversion, histogram clip, range
\* normalization, colour balance, and the chroma correction of the Lab
\* buffer) has all its samples in 0..255, whatever the image.
C2_ClampClosure ==
    /\ InRange(na)
    /\ InRange(clipped)
    /\ InRange(normalized)
    /\ InRange(balanced)
    /\ InRange(lab_modified)

\* C2 witness: the chroma correction has run on an image holding both an
\* all-zero and an all-255 pixel, with chroma above both thresholds.
C2_Witness ==
    /\ pc = "lab_modified"
    /\ \E p \in DOMAIN img : img[p] = <<0, 0, 0>>
    /\ \E p \in DOMAIN img : img[p] = <<255, 255, 255>>
    /\ \E p \in DOMAIN lab : lab[p][2] = 255 /\ lab[p][3] = 255

\* ---------------------------------------------------------------------- C3
\* The product of a sample and a gain (in hundredths), clamped to [0, 255],
\* is the output sample up to the conversion to an integer.
IsGained(out, in, factor) ==
    LET x == np_clip(in * factor, 0, 255 * 100)
    IN  100 * out - 100 < x /\ x < 100 * out + 100

\* C3: in the RGB layout process_image passes (index 0 red, 1 green, 2 blue)
\* the balancing step multiplies red by 0.9, green by 0.85 and blue by 1.0,
\* each clamped to [0, 255].
C3_GainsOnNamedColours ==
    pc \in AfterBalance =>
        \A p \in DOMAIN normalized :
            /\ IsGained(balanced[p][1], normalized[p][1], RED_FACTOR)
            /\ IsGained(balanced[p][2], normalized[p][2], GREEN_FACTOR)
            /\ IsGained(balanced[p][3], normalized[p][3], BLUE_FACTOR)

\* ---------------------------------------------------------------------- C4
\* C4 as stated: a flat buffer normalizes to all zeros, and so every image
\* of a single constant colour is all zeros after clip and normalize.
C4_ConstantColourToZero ==
    pc \in AfterNormalize =>
        /\ Flat(clipped) => AllZero(normalized)
        /\ ConstantColour(img) => AllZero(normalized)

\* C4, amended: a flat buffer entering the normalizer (global maximum equal
\* to global minimum) normalizes to an all-zero buffer of the same
\* dimensions, and so every image of a single constant grey (all three
\* channels equal) is all zeros after clip and normalize.
C4_FlatToZero ==
    pc \in AfterNormalize =>
        /\ DOMAIN normalized = DOMAIN clipped
        /\ Flat(clipped) => AllZero(normalized)
        /\ ConstantColour(img) /\ Flat(img) => AllZero(normalized)

\* C4 witness: a constant mid-grey image, normalized.
C4_Witness ==
    /\ pc = "normalized"
    /\ \A p \in DOMAIN img : img[p] = <<128, 128, 128>>
    /\ Flat(clipped)
    /\ AllZero(normalized)

\* ---------------------------------------------------------------------- C5
\* C5 as stated: chroma at or below its threshold (128 for a, 100 for b) is
\* unchanged, and chroma above it keeps exactly the excess scaled by the
\* factor (0.6 for a, 0.9 for b).
C5_ExcessScaledExactly ==
    pc = "lab_modified" =>
        \A p \in DOMAIN lab :
            /\ IF lab[p][2] > RED_MIDPOINT
               THEN 100 * (lab_modified[p][2] - RED_MIDPOINT)
                        = (lab[p][2] - RED_MIDPOINT) * RED_INTENSITY
               ELSE lab_modified[p][2] = lab[p][2]
            /\ IF lab[p][3] > YELLOW_THRESHOLD
               THEN 100 * (lab_modified[p][3] - YELLOW_THRESHOLD)
                        = (lab[p][3] - YELLOW_THRESHOLD) * YELLOW_INTENSITY
               ELSE lab_modified[p][3] = lab[p][3]

\* The new excess is the scaled old excess with its fraction dropped.
IsTruncatedExcess(out, in, threshold, intensity) ==
    LET x == (in - threshold) * intensity
    IN  100 * (out - threshold) <= x /\ x < 100 * (out - threshold) + 100

\* C5, amended: chroma at or below its threshold (128 for a, 100 for b) is
\* unchanged; chroma above it becomes the threshold plus the excess scaled
\* by the factor (0.6 for a, 0.9 for b) and truncated to an integer, so that
\* 129 becomes 128 and 101 becomes 100.
C5_ExcessScaledTruncated ==
    pc = "lab_modified" =>
        \A p \in DOMAIN lab :
            /\ IF lab[p][2] > RED_MIDPOINT
               THEN IsTruncatedExcess(lab_modified[p][2], lab[p][2],
                                      RED_MIDPOINT, RED_INTENSITY)
               ELSE lab_modified[p][2] = lab[p][2]
            /\ IF lab[p][3] > YELLOW_THRESHOLD
               THEN IsTruncatedExcess(lab_modified[p][3], lab[p][3],
                                      YELLOW_THRESHOLD, YELLOW_INTENSITY)
               ELSE lab_modified[p][3] = lab[p][3]
            /\ lab[p][2] = 129 => lab_modified[p][2] = 128
            /\ lab[p][3] = 101 => lab_modified[p][3] = 100

\* C5 witness: the corrector has run on a pixel exactly at both thresholds
\* and on a pixel one above both.
C5_Witness ==
    /\ pc = "lab_modified"
    /\ \E p \in DOMAIN lab :
           /\ lab[p][2] = 128 /\ lab[p][3] = 100
           /\ lab_modified[p][2] = 128 /\ lab_modified[p][3] = 100
    /\ \E p \in DOMAIN lab :
           /\ lab[p][2] = 129 /\ lab[p][3] = 101
           /\ lab_modified[p][2] = 128 /\ lab_modified[p][3] = 100

\* ---------------------------------------------------------------------- C8
\* The number of samples of channel k of the equalized buffer that a result
\* of clip_histogram has changed.
ClippedCount(src, out, k) ==
    LET e == equalizeHist(cv2_split(src)[k])
    IN  Cardinality({p \in DOMAIN e : out[p][k] # e[p]})

\* C8: for every channel, clip_histogram under the wider of two percentile
\* windows changes no more samples of the equalized channel than under the
\* narrower one.
C8_WiderWindowClipsNoMore ==
    (cnarrow # None /\ cwide # None) =>
        \A k \in 1..3 :
            ClippedCount(cimage, cwide, k) <= ClippedCount(cimage, cnarrow, k)

\* C8 witness: both results exist, the wide window is strictly wider on both
\* sides, and on some channel it clips some samples but fewer than the
\* narrow one.
C8_Witness ==
    /\ cnarrow # None /\ cwide # None
    /\ cwin.lo2 < cwin.lo1 /\ cwin.hi1 < cwin.hi2
    /\ \E k \in 1..3 :
           /\ 0 < ClippedCount(cimage, cwide, k)
           /\ ClippedCount(cimage, cwide, k) < ClippedCount(cimage, cnarrow, k)

\* ---------------------------------------------------------------------- C9
\* The window is clip_histogram's default one, and its result exists.
DefaultWindowClipped ==
    cnarrow # None /\ cwin.lo1 = CLIP_LOW /\ cwin.hi1 = CLIP_HIGH

\* C9 as stated: every sample of a clipped channel lies between the 5th and
\* the 99th percentile (low, high) of the equalized channel; samples below
\* low become low, samples above high become high, samples inside are
\* unchanged; a constant channel is returned unchanged.
C9_ClippedWithinPercentiles ==
    DefaultWindowClipped =>
        \A k \in 1..3 :
            LET ch == cv2_split(cimage)[k]
                e == equalizeHist(ch)
                low == np_percentile(e, CLIP_LOW)
                high == np_percentile(e, CLIP_HIGH)
            IN  /\ \A p \in DOMAIN e :
                       /\ low <= 100 * cnarrow[p][k]
                       /\ 100 * cnarrow[p][k] <= high
                       /\ 100 * e[p] < low => 100 * cnarrow[p][k] = low
                       /\ 100 * e[p] > high => 100 * cnarrow[p][k] = high
                       /\ (low <= 100 * e[p] /\ 100 * e[p] <= high)
                              => cnarrow[p][k] = e[p]
                /\ Cardinality(Range(ch)) = 1 =>
                       /\ low = high
                       /\ \A p \in DOMAIN ch : 100 * ch[p] = low /\ cnarrow[p][k] = ch[p]

\* C9, amended: with low and high the 5th and the 99th percentile of the
\* equalized channel, every sample of the clipped channel lies between low
\* and high truncated to integers; samples below low become the truncated
\* low, samples above high become the truncated high, samples inside are
\* unchanged; a constant channel has low = high = its value and is returned
\* unchanged.
C9_ClippedWithinTruncatedPercentiles ==
    DefaultWindowClipped =>
        \A k \in 1..3 :
            LET ch == cv2_split(cimage)[k]
                e == equalizeHist(ch)
                low == np_percentile(e, CLIP_LOW)
                high == np_percentile(e, CLIP_HIGH)
            IN  /\ \A p \in DOMAIN e :
                       /\ trunc100(low) <= cnarrow[p][k]
                       /\ cnarrow[p][k] <= trunc100(high)
                       /\ 100 * e[p] < low => cnarrow[p][k] = trunc100(low)
                       /\ 100 * e[p] > high => cnarrow[p][k] = trunc100(high)
                       /\ (low <= 100 * e[p] /\ 100 * e[p] <= high)
                              => cnarrow[p][k] = e[p]
                /\ Cardinality(Range(ch)) = 1 =>
                       /\ low = high
                       /\ \A p \in DOMAIN ch : 100 * ch[p] = low /\ cnarrow[p][k] = ch[p]

\* C9 witness: the default window has clipped an image with a channel of
\* three different samples, one below a fractional low, one above a
\* fractional high and one inside, and with a constant channel.
C9_Witness ==
    /\ DefaultWindowClipped
    /\ \E k \in 1..3 :
           LET e == equalizeHist(cv2_split(cimage)[k])
               low == np_percentile(e, CLIP_LOW)
               high == np_percentile(e, CLIP_HIGH)
           IN  /\ low % 100 # 0 /\ high % 100 # 0
               /\ \E p \in DOMAIN e : 100 * e[p] < low /\ cnarrow[p][k] = trunc100(low)
               /\ \E p \in DOMAIN e : 100 * e[p] > high /\ cnarrow[p][k] = trunc100(high)
               /\ \E p \in DOMAIN e : low < 100 * e[p] /\ 100 * e[p] < high
    /\ \E k \in 1..3 : Cardinality(Range(cv2_split(cimage)[k])) = 1

\* ---------------------------------------------------------------------- C6
\* Two accepted uploads share their file: one stored name, one file.
ShareFile(u, v) ==
    /\ u.stored = v.stored
    /\ Cardinality({u.stored, v.stored} \cap DOMAIN uploads') <= 1

\* A step leaves every stored upload that it does not delete as it is.
NoOverwrite ==
    \A n \in DOMAIN uploads \cap DOMAIN uploads' : uploads'[n] = uploads[n]

C7_SweepRemovesExactlyOld ==
    [][ /\ \A n \in DOMAIN uploads \ DOMAIN uploads' :
               swpc = "uploads" /\ swnow - uploads[n].mtime > 7200
        /\ \A n \in DOMAIN processed \ DOMAIN processed' :
               swpc = "processed" /\ swnow - processed[n].mtime > 7200
        /\ (swpc = "processed" /\ swpc' = "idle" /\ ~swerr') =>
               /\ \A n \in DOMAIN uploads' : swnow - uploads'[n].mtime <= 7200
               /\ \A n \in DOMAIN processed' : swnow - processed'[n].mtime <= 7200
      ]_vars

\* C7 witness: a sweep without deletion error has scanned uploads/, an
\* accepted upload's file is gone and a file of age exactly 7200 s is kept.
C7_Witness ==
    /\ swpc = "processed"
    /\ ~swerr
    /\ \E u \in DOMAIN accepted : u.stored \notin DOMAIN uploads
    /\ \E n \in DOMAIN uploads : swnow - uploads[n].mtime = 7200

\* --------------------------------------------------------------------- C10
\* C10: once /upload/ has answered with stored name F, F stays in uploads/
\* for 2 hours after that answer, also when F existed before, and a
\* /process/ request for F in that time never answers "Archivo no
\* encontrado".
C10_UploadedStaysAvailable ==
    /\ \A u \in DOMAIN accepted :
           now - accepted[u] <= MAX_FILE_AGE_SECONDS => u.stored \in DOMAIN uploads
    /\ (response.handler = "process" /\ response.error # "") =>
           \A u \in DOMAIN accepted :
               u.stored = response.filename
                   => response.at - accepted[u] > MAX_FILE_AGE_SECONDS

====
